---- MODULE Spec2Model ----
(***************************************************************************)
(* Lead-nurturing campaign scheduler (backend/modules/lead_nurturing.py).  *)
(*                                                                         *)
(* State: the two in-process maps self.leads and self.campaigns, the       *)
(* template store loaded at construction, the wall clock, and the position *)
(* of the single background coroutine _process_campaigns.  The coroutine   *)
(* runs without interruption between two awaits; the only awaits at which  *)
(* other coroutines (nurture_lead, pause_campaign, resume_campaign) may    *)
(* run are the dispatcher call inside _execute_campaign_step and the       *)
(* asyncio.sleep(60) between two passes.  Time is counted in days.         *)
(* The dispatcher is an awaited coroutine (lines 250 and 258), so its call *)
(* is a point where the event loop may run other coroutines; the bundled   *)
(* EmailSMSAutomation adapter happens to call blocking clients, in which   *)
(* case the behaviours with nothing between Tick and DispatchReturn are    *)
(* the ones that occur.                                                    *)
(*                                                                         *)
(* Of the timestamps the code stores, the records keep the ones that are   *)
(* read back or that date the record (created_at, started_at,              *)
(* next_action_at); last_contact, paused_at, resumed_at, executed_at and   *)
(* completed_at are written and never read, and are left out.              *)
(***************************************************************************)
EXTENDS Integers, Sequences, FiniteSets, TLC

\* ------------------------------------------------------------------ bounds
MaxTime == 2

LeadIds == {"L1", "L2"}

\* ------------------------------------------------------------- data model
NoTime == -1

\* a next_action_at string read from data/campaigns.json that
\* datetime.fromisoformat (line 219) rejects; the strings the code writes
\* itself (isoformat) always parse back to the time they were made from
BadTimestamp == -2

Parses(stamp) == stamp # BadTimestamp

\* campaign_id = f"campaign_{lead_id}_{n}"
CampaignId(lead_id, n) == <<lead_id, n>>

Step(d, t) == [delay_days |-> d, type |-> t]

\* _get_default_templates: the built-in fallback set
DefaultTemplates ==
    [welcome_series |-> <<Step(0, "email"), Step(3, "email"), Step(7, "email")>>,
     re_engagement  |-> <<Step(0, "email"), Step(5, "email")>>]

\* templates/nurturing_campaigns.json, when present, replaces the defaults:
\* a two-step series mixing channels, a series holding a step type that
\* _execute_campaign_step does not handle, and a file without welcome_series
FileTemplatesShort ==
    [welcome_series |-> <<Step(0, "email"), Step(1, "sms")>>]

FileTemplatesPush ==
    [welcome_series |-> <<Step(0, "sms"), Step(0, "push"), Step(1, "email")>>]

FileTemplatesNoWelcome ==
    [re_engagement |-> <<Step(0, "email"), Step(5, "email")>>]

\* a file whose first step carries a delay of its own
FileTemplatesDelayedFirst ==
    [welcome_series |-> <<Step(1, "sms"), Step(1, "email")>>]

TemplateStores ==
    {DefaultTemplates, FileTemplatesShort, FileTemplatesPush,
     FileTemplatesNoWelcome, FileTemplatesDelayedFirst}

VARIABLES
    campaign_templates,  \* self.campaign_templates
    leads,               \* self.leads      : lead id -> lead record
    campaigns,           \* self.campaigns  : campaign id -> campaign record
    campaign_order,      \* insertion order of the keys of self.campaigns
    now,                 \* datetime.now()
    pc,                  \* _process_campaigns: "sleep" or "dispatch"
    current_time,        \* local current_time of the running pass
    it_pos,              \* number of items the dict iterator has yielded
    it_size,             \* len(self.campaigns) when the iterator was created
    tick_cid,            \* campaign whose step is awaiting the dispatcher
    detached,            \* the pass holds records no longer in the maps
    last_response,       \* response of the last Control API call
    disk,                \* data/leads.json and data/campaigns.json
    other,               \* a second LeadNurturing object alive in the process
    payment_history      \* PaymentGateway.payment_history

vars == <<campaign_templates, leads, campaigns, campaign_order, now, pc,
          current_time, it_pos, it_size, tick_cid, detached, last_response,
          disk, other, payment_history>>

\* state that no method of this LeadNurturing object touches
sidevars == <<other, payment_history>>

\* no data file exists yet: _load_data leaves both maps empty
EmptyData == [leads |-> <<>>, campaigns |-> <<>>, order |-> <<>>]

\* content of the two files after _save_data (lines 119-136)
SavedData(lds, camps, order) == [leads |-> lds, campaigns |-> camps, order |-> order]

NoEngine == [pc |-> "none"]

tickvars == <<pc, current_time, it_pos, it_size, tick_cid, detached>>

NoCampaign == <<"none", 0>>

NoResponse == [op |-> "none"]

CampaignIds == {CampaignId(l, 1) : l \in LeadIds}

\* ------------------------------------------------------- record creation
\* nurture_lead, lines 144-154 (contact fields are opaque to the scheduler)
NewLead(t) ==
    [created_at |-> t, engagement_score |-> 0, campaign_history |-> <<>>]

\* Variant of _start_campaign that schedules the first step after its delay
NewCampaign_DelaysFirstStep(lead_id, template, t) ==
    [lead_id |-> lead_id, template |-> template, status |-> "active",
     current_step |-> 0, started_at |-> t,
     next_action_at |-> t + campaign_templates[template][1].delay_days,
     completed_steps |-> <<>>, error |-> "none"]

\* _start_campaign, lines 184-192
NewCampaign(lead_id, template, t) ==
    [lead_id |-> lead_id, template |-> template, status |-> "active",
     current_step |-> 0, started_at |-> t, next_action_at |-> t,
     completed_steps |-> <<>>, error |-> "none"]

\* _start_campaign, lines 195-200
NewHistoryEntry(cid, template, t) ==
    [campaign_id |-> cid, template |-> template, started_at |-> t,
     status |-> "active"]

\* "for camp in lead['campaign_history']: if camp['campaign_id'] == id: ..."
SetHistoryStatus(history, cid, st) ==
    [i \in DOMAIN history |->
        IF history[i].campaign_id = cid
        THEN [history[i] EXCEPT !.status = st]
        ELSE history[i]]

\* ------------------------------------------------ _execute_campaign_step
\* Lines 236-263 up to the dispatcher call: TRUE when a dispatcher call is
\* reached, FALSE when an exception is raised first (unknown lead, unknown
\* template, step index out of range, or a step type that is neither email
\* nor sms, which leaves `result` unbound at line 269).
ReachesDispatch(camps, lds, cid) ==
    LET campaign == camps[cid] IN
    /\ campaign.lead_id \in DOMAIN lds
    /\ campaign.template \in DOMAIN campaign_templates
    /\ campaign.current_step < Len(campaign_templates[campaign.template])
    /\ campaign_templates[campaign.template][campaign.current_step + 1].type
          \in {"email", "sms"}

\* Variant of the except branch that records the error and leaves the status
MarkFailed_OnlyRecordsError(campaign) ==
    [campaign EXCEPT !.error = "exception"]

\* Lines 296-300: the except branch
MarkFailed(campaign) ==
    [campaign EXCEPT !.status = "failed", !.error = "exception"]

\* Variant of the bookkeeping that schedules the next step with the delay
\* of the step just executed instead of the delay of the new current step
AdvanceCampaign_UsesOwnDelay(campaign, success, t) ==
    LET steps    == campaign_templates[campaign.template]
        logged   == [campaign EXCEPT !.completed_steps =
                        Append(@, [step |-> campaign.current_step,
                                   success |-> success])]
        advanced == [logged EXCEPT !.current_step = @ + 1]
    IN IF advanced.current_step >= Len(steps)
       THEN [advanced EXCEPT !.status = "completed"]
       ELSE [advanced EXCEPT !.next_action_at =
                t + steps[campaign.current_step + 1].delay_days]

\* Variant of the bookkeeping that moves to the next step only after a
\* dispatch that did not succeed
AdvanceCampaign_AdvancesOnFailureOnly(campaign, success, t) ==
    LET steps    == campaign_templates[campaign.template]
        logged   == [campaign EXCEPT !.completed_steps =
                        Append(@, [step |-> campaign.current_step,
                                   success |-> success])]
        advanced == [logged EXCEPT !.current_step = IF success THEN @ ELSE @ + 1]
    IN IF advanced.current_step >= Len(steps)
       THEN [advanced EXCEPT !.status = "completed"]
       ELSE [advanced EXCEPT !.next_action_at =
                t + steps[advanced.current_step + 1].delay_days]

\* Variant of the bookkeeping that goes back to step 0 after a failed dispatch
AdvanceCampaign_RestartsOnFailure(campaign, success, t) ==
    LET steps    == campaign_templates[campaign.template]
        logged   == [campaign EXCEPT !.completed_steps =
                        Append(@, [step |-> campaign.current_step,
                                   success |-> success])]
        advanced == [logged EXCEPT !.current_step = IF success THEN @ + 1 ELSE 0]
    IN IF advanced.current_step >= Len(steps)
       THEN [advanced EXCEPT !.status = "completed"]
       ELSE [advanced EXCEPT !.next_action_at =
                t + steps[advanced.current_step + 1].delay_days]

\* Lines 265-287: bookkeeping on the campaign record after the dispatcher
\* returned `success` at time t
AdvanceCampaign(campaign, success, t) ==
    LET steps    == campaign_templates[campaign.template]
        logged   == [campaign EXCEPT !.completed_steps =
                        Append(@, [step |-> campaign.current_step,
                                   success |-> success])]
        advanced == [logged EXCEPT !.current_step = @ + 1]
    IN IF advanced.current_step >= Len(steps)
       THEN [advanced EXCEPT !.status = "completed"]
       ELSE [advanced EXCEPT !.next_action_at =
                t + steps[advanced.current_step + 1].delay_days]

\* Lines 277-294: bookkeeping on the lead record
AdvanceLead(lead, campaign, cid, success) ==
    LET steps == campaign_templates[campaign.template]
        hist  == IF campaign.current_step + 1 >= Len(steps)
                 THEN SetHistoryStatus(lead.campaign_history, cid, "completed")
                 ELSE lead.campaign_history
    IN [lead EXCEPT !.campaign_history = hist,
                    !.engagement_score = IF success THEN @ + 1 ELSE @]

\* --------------------------------------------------- _process_campaigns
\* Variant of the pass whose status filter at line 215 is
\* `if campaign["status"] == "paused": continue`
RECURSIVE RunLoop_SkipsOnlyPaused(_, _, _, _, _)
RunLoop_SkipsOnlyPaused(camps, lds, order, pos, ctime) ==
    IF pos >= Len(order)
    THEN [campaigns |-> camps, pos |-> pos, pc |-> "sleep", cid |-> NoCampaign,
          saved |-> TRUE]
    ELSE LET cid == order[pos + 1]
             campaign == camps[cid]
         IN IF campaign.status = "paused"
            THEN RunLoop_SkipsOnlyPaused(camps, lds, order, pos + 1, ctime)
            ELSE IF ~Parses(campaign.next_action_at)
            THEN \* ValueError at line 219, caught at line 229: no save, sleep
                 [campaigns |-> camps, pos |-> pos + 1, pc |-> "sleep",
                  cid |-> NoCampaign, saved |-> FALSE]
            ELSE IF ctime >= campaign.next_action_at
            THEN IF ReachesDispatch(camps, lds, cid)
                 THEN [campaigns |-> camps, pos |-> pos + 1,
                       pc |-> "dispatch", cid |-> cid, saved |-> FALSE]
                 ELSE RunLoop_SkipsOnlyPaused([camps EXCEPT ![cid] = MarkFailed(@)],
                                              lds, order, pos + 1, ctime)
            ELSE RunLoop_SkipsOnlyPaused(camps, lds, order, pos + 1, ctime)

\* Variant of the pass whose status filter at line 215 is
\* `if campaign["status"] in ("completed", "failed"): continue`
RECURSIVE RunLoop_SkipsOnlyTerminal(_, _, _, _, _)
RunLoop_SkipsOnlyTerminal(camps, lds, order, pos, ctime) ==
    IF pos >= Len(order)
    THEN [campaigns |-> camps, pos |-> pos, pc |-> "sleep", cid |-> NoCampaign,
          saved |-> TRUE]
    ELSE LET cid == order[pos + 1]
             campaign == camps[cid]
         IN IF campaign.status \in {"completed", "failed"}
            THEN RunLoop_SkipsOnlyTerminal(camps, lds, order, pos + 1, ctime)
            ELSE IF ~Parses(campaign.next_action_at)
            THEN \* ValueError at line 219, caught at line 229: no save, sleep
                 [campaigns |-> camps, pos |-> pos + 1, pc |-> "sleep",
                  cid |-> NoCampaign, saved |-> FALSE]
            ELSE IF ctime >= campaign.next_action_at
            THEN IF ReachesDispatch(camps, lds, cid)
                 THEN [campaigns |-> camps, pos |-> pos + 1,
                       pc |-> "dispatch", cid |-> cid, saved |-> FALSE]
                 ELSE RunLoop_SkipsOnlyTerminal([camps EXCEPT ![cid] = MarkFailed(@)],
                                                lds, order, pos + 1, ctime)
            ELSE RunLoop_SkipsOnlyTerminal(camps, lds, order, pos + 1, ctime)

\* Variant of the pass whose due test at line 220 is
\* `if current_time > next_action`
RECURSIVE RunLoop_StrictlyAfter(_, _, _, _, _)
RunLoop_StrictlyAfter(camps, lds, order, pos, ctime) ==
    IF pos >= Len(order)
    THEN [campaigns |-> camps, pos |-> pos, pc |-> "sleep", cid |-> NoCampaign,
          saved |-> TRUE]
    ELSE LET cid == order[pos + 1]
             campaign == camps[cid]
         IN IF campaign.status # "active"
            THEN RunLoop_StrictlyAfter(camps, lds, order, pos + 1, ctime)
            ELSE IF ~Parses(campaign.next_action_at)
            THEN [campaigns |-> camps, pos |-> pos + 1, pc |-> "sleep",
                  cid |-> NoCampaign, saved |-> FALSE]
            ELSE IF ctime > campaign.next_action_at
            THEN IF ReachesDispatch(camps, lds, cid)
                 THEN [campaigns |-> camps, pos |-> pos + 1,
                       pc |-> "dispatch", cid |-> cid, saved |-> FALSE]
                 ELSE RunLoop_StrictlyAfter([camps EXCEPT ![cid] = MarkFailed(@)],
                                            lds, order, pos + 1, ctime)
            ELSE RunLoop_StrictlyAfter(camps, lds, order, pos + 1, ctime)

\* Variant of the pass that keeps the iterator on an instance whose step it
\* hands to the dispatcher, so that the instance is tested again afterwards
RECURSIVE RunLoop_RepeatsInstance(_, _, _, _, _)
RunLoop_RepeatsInstance(camps, lds, order, pos, ctime) ==
    IF pos >= Len(order)
    THEN [campaigns |-> camps, pos |-> pos, pc |-> "sleep", cid |-> NoCampaign,
          saved |-> TRUE]
    ELSE LET cid == order[pos + 1]
             campaign == camps[cid]
         IN IF campaign.status # "active"
            THEN RunLoop_RepeatsInstance(camps, lds, order, pos + 1, ctime)
            ELSE IF ~Parses(campaign.next_action_at)
            THEN [campaigns |-> camps, pos |-> pos + 1, pc |-> "sleep",
                  cid |-> NoCampaign, saved |-> FALSE]
            ELSE IF ctime >= campaign.next_action_at
            THEN IF ReachesDispatch(camps, lds, cid)
                 THEN [campaigns |-> camps, pos |-> pos,
                       pc |-> "dispatch", cid |-> cid, saved |-> FALSE]
                 ELSE RunLoop_RepeatsInstance([camps EXCEPT ![cid] = MarkFailed(@)],
                                              lds, order, pos + 1, ctime)
            ELSE RunLoop_RepeatsInstance(camps, lds, order, pos + 1, ctime)

\* Lines 214-221 from iterator position pos up to the next await: the pass
\* either reaches a dispatcher call for some campaign or exhausts the dict.
RECURSIVE RunLoop(_, _, _, _, _)
RunLoop(camps, lds, order, pos, ctime) ==
    IF pos >= Len(order)
    THEN [campaigns |-> camps, pos |-> pos, pc |-> "sleep", cid |-> NoCampaign,
          saved |-> TRUE]
    ELSE LET cid == order[pos + 1]
             campaign == camps[cid]
         IN IF campaign.status # "active"
            THEN RunLoop(camps, lds, order, pos + 1, ctime)
            ELSE IF ~Parses(campaign.next_action_at)
            THEN \* ValueError at line 219, caught at line 229: no save, sleep
                 [campaigns |-> camps, pos |-> pos + 1, pc |-> "sleep",
                  cid |-> NoCampaign, saved |-> FALSE]
            ELSE IF ctime >= campaign.next_action_at
            THEN IF ReachesDispatch(camps, lds, cid)
                 THEN [campaigns |-> camps, pos |-> pos + 1,
                       pc |-> "dispatch", cid |-> cid, saved |-> FALSE]
                 ELSE RunLoop([camps EXCEPT ![cid] = MarkFailed(@)],
                              lds, order, pos + 1, ctime)
            ELSE RunLoop(camps, lds, order, pos + 1, ctime)

\* ------------------------------------------------------------------ Init
\* __init__ with no data files: empty maps, background pass not yet run
Init ==
    /\ campaign_templates \in TemplateStores
    /\ leads = <<>>
    /\ campaigns = <<>>
    /\ campaign_order = <<>>
    /\ now = 0
    /\ pc = "sleep"
    /\ current_time = 0
    /\ it_pos = 0
    /\ it_size = 0
    /\ tick_cid = NoCampaign
    /\ detached = FALSE
    /\ last_response = NoResponse
    /\ disk = EmptyData
    /\ other = NoEngine
    /\ payment_history = <<>>

\* --------------------------------------------------------------- actions
\* The wall clock moves on
AdvanceTime ==
    /\ now < MaxTime
    /\ now' = now + 1
    /\ UNCHANGED <<campaign_templates, leads, campaigns, campaign_order,
                   tickvars, last_response, disk, sidevars>>

\* Effect of resuming the pass at iterator position pos: run to the next
\* await; a pass that exhausts the dict saves and sleeps (lines 223-227).
ContinuePass(camps, lds, order, pos, ctime) ==
    LET r == RunLoop(camps, lds, order, pos, ctime) IN
    /\ campaigns' = r.campaigns
    /\ pc' = r.pc
    /\ it_pos' = r.pos
    /\ tick_cid' = r.cid
    /\ detached' = FALSE
    /\ disk' = IF r.saved THEN SavedData(lds, r.campaigns, order) ELSE disk

\* _process_campaigns wakes up from asyncio.sleep and starts a pass
Tick ==
    /\ pc = "sleep"
    /\ current_time' = now
    /\ it_size' = Len(campaign_order)
    /\ ContinuePass(campaigns, leads, campaign_order, 0, now)
    /\ UNCHANGED <<campaign_templates, leads, campaign_order, now, last_response,
                   sidevars>>

\* EmailSMSAutomation.send_email / send_sms: the whole body is inside
\* try/except Exception, so an exception of the provider client (or of the
\* validation before it) becomes the result {"success": False, "error": ...};
\* a provider answer outside 2xx gives success False as well.
SendOutcomes == {"ok", "rejected", "exception"}

SendResult(outcome) == [success |-> outcome = "ok", raised |-> FALSE]

\* The dispatcher call of _execute_campaign_step returns `success`; the
\* bookkeeping of lines 265-294 runs on the records the pass holds, then the
\* for loop asks the dict iterator for its next item.
DispatchReturn(success) ==
    /\ pc = "dispatch"
    /\ LET cid      == tick_cid
           campaign == campaigns[cid]
           lid      == campaign.lead_id
           camps1   == IF detached THEN campaigns
                       ELSE [campaigns EXCEPT
                               ![cid] = AdvanceCampaign(@, success, now)]
           leads1   == IF detached THEN leads
                       ELSE [leads EXCEPT
                               ![lid] = AdvanceLead(@, campaign, cid, success)]
       IN /\ leads' = leads1
          /\ IF Len(campaign_order) # it_size
             THEN \* RuntimeError: dictionary changed size during iteration,
                  \* caught at line 229: no save, sleep
                  /\ campaigns' = camps1
                  /\ pc' = "sleep"
                  /\ tick_cid' = NoCampaign
                  /\ detached' = FALSE
                  /\ it_pos' = it_pos
                  /\ disk' = disk
             ELSE ContinuePass(camps1, leads1, campaign_order, it_pos, current_time)
    /\ UNCHANGED <<campaign_templates, campaign_order, now, current_time,
                   it_size, last_response, sidevars>>

\* nurture_lead(lead_data); has_email = FALSE stands for lead_data without
\* the "email" key (KeyError at line 145, before anything is stored)
NurtureLead(lead_id, has_email) ==
    LET cid == CampaignId(lead_id, Len(NewLead(now).campaign_history) + 1)
        lead1 == NewLead(now)
        lead2 == [lead1 EXCEPT !.campaign_history =
                     Append(@, NewHistoryEntry(cid, "welcome_series", now))]
    IN
    /\ IF ~has_email
       THEN /\ last_response' = [op |-> "nurture_lead", success |-> FALSE,
                                 id |-> lead_id]
            /\ UNCHANGED <<leads, campaigns, campaign_order, detached, disk>>
       ELSE IF "welcome_series" \notin DOMAIN campaign_templates
       THEN \* ValueError raised by _start_campaign after line 144 ran
            /\ leads' = (lead_id :> lead1) @@ leads
            /\ last_response' = [op |-> "nurture_lead", success |-> FALSE,
                                 id |-> lead_id]
            /\ UNCHANGED <<campaigns, campaign_order, detached, disk>>
       ELSE /\ leads' = (lead_id :> lead2) @@ leads
            /\ campaigns' = (cid :> NewCampaign(lead_id, "welcome_series", now))
                               @@ campaigns
            /\ campaign_order' = IF cid \in DOMAIN campaigns
                                 THEN campaign_order
                                 ELSE Append(campaign_order, cid)
            /\ detached' = (detached \/ (pc = "dispatch" /\ tick_cid = cid))
            /\ disk' = SavedData(leads', campaigns', campaign_order')
            /\ last_response' = [op |-> "nurture_lead", success |-> TRUE,
                                 id |-> lead_id, campaign_id |-> cid]
    /\ UNCHANGED <<campaign_templates, now, pc, current_time, it_pos, it_size,
                   tick_cid, sidevars>>

\* Variant of pause_campaign without the status test of line 352
PauseCampaign_NoStatusTest(cid) ==
    /\ IF cid \in DOMAIN campaigns
       THEN /\ campaigns' = [campaigns EXCEPT ![cid].status = "paused"]
            /\ leads' = [leads EXCEPT ![campaigns[cid].lead_id].campaign_history =
                            SetHistoryStatus(@, cid, "paused")]
            /\ disk' = SavedData(leads', campaigns', campaign_order)
            /\ last_response' = [op |-> "pause_campaign", success |-> TRUE,
                                 id |-> cid]
       ELSE /\ last_response' = [op |-> "pause_campaign", success |-> FALSE,
                                 id |-> cid]
            /\ UNCHANGED <<leads, campaigns, disk>>
    /\ UNCHANGED <<campaign_templates, campaign_order, now, tickvars, sidevars>>

\* pause_campaign(campaign_id)
PauseCampaign(cid) ==
    /\ IF cid \in DOMAIN campaigns /\ campaigns[cid].status = "active"
       THEN /\ campaigns' = [campaigns EXCEPT ![cid].status = "paused"]
            /\ leads' = [leads EXCEPT ![campaigns[cid].lead_id].campaign_history =
                            SetHistoryStatus(@, cid, "paused")]
            /\ disk' = SavedData(leads', campaigns', campaign_order)
            /\ last_response' = [op |-> "pause_campaign", success |-> TRUE,
                                 id |-> cid]
       ELSE /\ last_response' = [op |-> "pause_campaign", success |-> FALSE,
                                 id |-> cid]
            /\ UNCHANGED <<leads, campaigns, disk>>
    /\ UNCHANGED <<campaign_templates, campaign_order, now, tickvars, sidevars>>

\* Variant of resume_campaign that reschedules the step from the resume time
ResumeCampaign_Reschedules(cid) ==
    /\ IF cid \in DOMAIN campaigns /\ campaigns[cid].status = "paused"
       THEN /\ campaigns' = [campaigns EXCEPT ![cid].status = "active",
                                              ![cid].next_action_at = now]
            /\ leads' = [leads EXCEPT ![campaigns[cid].lead_id].campaign_history =
                            SetHistoryStatus(@, cid, "active")]
            /\ disk' = SavedData(leads', campaigns', campaign_order)
            /\ last_response' = [op |-> "resume_campaign", success |-> TRUE,
                                 id |-> cid]
       ELSE /\ last_response' = [op |-> "resume_campaign", success |-> FALSE,
                                 id |-> cid]
            /\ UNCHANGED <<leads, campaigns, disk>>
    /\ UNCHANGED <<campaign_templates, campaign_order, now, tickvars, sidevars>>

\* resume_campaign(campaign_id)
ResumeCampaign(cid) ==
    /\ IF cid \in DOMAIN campaigns /\ campaigns[cid].status = "paused"
       THEN /\ campaigns' = [campaigns EXCEPT ![cid].status = "active"]
            /\ leads' = [leads EXCEPT ![campaigns[cid].lead_id].campaign_history =
                            SetHistoryStatus(@, cid, "active")]
            /\ disk' = SavedData(leads', campaigns', campaign_order)
            /\ last_response' = [op |-> "resume_campaign", success |-> TRUE,
                                 id |-> cid]
       ELSE /\ last_response' = [op |-> "resume_campaign", success |-> FALSE,
                                 id |-> cid]
            /\ UNCHANGED <<leads, campaigns, disk>>
    /\ UNCHANGED <<campaign_templates, campaign_order, now, tickvars, sidevars>>

Next ==
    \/ AdvanceTime
    \/ Tick
    \/ \E outcome \in SendOutcomes : DispatchReturn(SendResult(outcome).success)
    \/ \E lead_id \in LeadIds, has_email \in BOOLEAN : NurtureLead(lead_id, has_email)
    \/ \E cid \in CampaignIds : PauseCampaign(cid)
    \/ \E cid \in CampaignIds : ResumeCampaign(cid)

Spec == Init /\ [][Next]_vars

\* ------------------------------------------------------ observation aids
Template(cid) == campaign_templates[campaigns[cid].template]

\* the pass is suspended in the dispatcher call for the stored record of cid
InFlight(cid) == pc = "dispatch" /\ tick_cid = cid /\ ~detached

\* this step hands a step of cid to the dispatcher
DispatchStarted(cid) ==
    /\ pc' = "dispatch"
    /\ tick_cid' = cid
    /\ (pc = "sleep" \/ it_pos' # it_pos)

\* this step is the return of the dispatcher call for the stored record of
\* cid, logged with outcome `success`
StepLogged(cid, success) ==
    /\ InFlight(cid)
    /\ cid \in DOMAIN campaigns'
    /\ Len(campaigns'[cid].completed_steps) = Len(campaigns[cid].completed_steps) + 1
    /\ campaigns'[cid].completed_steps[Len(campaigns'[cid].completed_steps)].success
          = success

\* this step is a nurture_lead call that got past line 141-149 for lead_id
Registers(lead_id) == \E has_email \in {TRUE} : NurtureLead(lead_id, has_email)

\* step indices of the records logged with success, in log order
RECURSIVE SuccessSteps(_)
SuccessSteps(log) ==
    IF log = <<>> THEN <<>>
    ELSE IF Head(log).success
         THEN <<Head(log).step>> \o SuccessSteps(Tail(log))
         ELSE SuccessSteps(Tail(log))

\* --------------------------------------------------------------- claims
\* C1 (retry on failure): when the dispatcher returns success=false for the
\* current step N of an active instance, current_step is still N afterwards
\* and the instance is still active, hence due again.
C1_RetryOnFailure ==
    [][\A cid \in DOMAIN campaigns :
          (StepLogged(cid, FALSE) /\ campaigns[cid].status = "active")
             => /\ campaigns'[cid].current_step = campaigns[cid].current_step
                /\ campaigns'[cid].status = "active"
                /\ campaigns'[cid].next_action_at = campaigns[cid].next_action_at]_vars

\* C2 (step ordering): the step indices of the successful records of every
\* instance, in log order, are 0, 1, 2, ... without gaps.
C2_StepOrdering ==
    \A cid \in DOMAIN campaigns :
        LET ss == SuccessSteps(campaigns[cid].completed_steps)
        IN \A i \in DOMAIN ss : ss[i] = i - 1

\* C3 (completion): an instance is completed if and only if each of the K
\* steps of its template has been dispatched successfully.
C3_Completion ==
    \A cid \in DOMAIN campaigns :
        (campaigns[cid].status = "completed")
           <=> (\A k \in 0 .. Len(Template(cid)) - 1 :
                   \E i \in DOMAIN campaigns[cid].completed_steps :
                       /\ campaigns[cid].completed_steps[i].step = k
                       /\ campaigns[cid].completed_steps[i].success)

\* this step is the return of a dispatcher call
Returns == \E success \in BOOLEAN : DispatchReturn(success)

\* position of cid in the iteration order of self.campaigns
PosOf(cid) == CHOOSE i \in DOMAIN campaign_order : campaign_order[i] = cid

\* this step takes cid from the dict iterator and tests it at lines 215-220
Examined(cid) ==
    \/ Tick /\ PosOf(cid) \in 1 .. it_pos'
    \/ Returns /\ PosOf(cid) \in (it_pos + 1) .. it_pos'

\* this step runs _execute_campaign_step for cid: it reaches the dispatcher
\* or ends in the except branch
Executed(cid) ==
    \/ DispatchStarted(cid)
    \/ campaigns[cid].status # "failed" /\ campaigns'[cid].status = "failed"

\* status, current_step and completed_steps of cid are the same after the step
ProgressUnchanged(cid) ==
    /\ cid \in DOMAIN campaigns'
    /\ campaigns'[cid].status = campaigns[cid].status
    /\ campaigns'[cid].current_step = campaigns[cid].current_step
    /\ campaigns'[cid].completed_steps = campaigns[cid].completed_steps

\* C4 (terminal states are absorbing): once an instance is completed or
\* failed, no tick, pause_campaign or resume_campaign step dispatches a
\* message for it or changes its status, current_step or completed_steps.
C4_TerminalAbsorbing ==
    [][\A cid \in DOMAIN campaigns :
          campaigns[cid].status \in {"completed", "failed"}
             => \/ Registers(campaigns[cid].lead_id)
                \/ ProgressUnchanged(cid) /\ ~DispatchStarted(cid)]_vars

\* C4 witness: a failed instance on which pause_campaign was then refused,
\* seen by a pass that ran to its end at the present time
C4_Witness ==
    \E cid \in DOMAIN campaigns :
        /\ campaigns[cid].status = "failed"
        /\ last_response = [op |-> "pause_campaign", success |-> FALSE, id |-> cid]
        /\ pc = "sleep" /\ current_time = now /\ now > 0
        /\ it_pos = Len(campaign_order)

\* C5 (pause freezes progression): while an instance is paused, a pass that
\* was not already waiting on the dispatcher for it when the pause took
\* effect leaves its current_step and completed_steps unchanged and
\* dispatches nothing for it.
C5_PauseFreezes ==
    [][\A cid \in DOMAIN campaigns :
          (campaigns[cid].status = "paused" /\ ~InFlight(cid))
             => \/ Registers(campaigns[cid].lead_id)
                \/ /\ cid \in DOMAIN campaigns'
                   /\ campaigns'[cid].current_step = campaigns[cid].current_step
                   /\ campaigns'[cid].completed_steps = campaigns[cid].completed_steps
                   /\ campaigns'[cid].status \in {"paused", "active"}
                   /\ ~DispatchStarted(cid)]_vars

\* C5 witness: a paused instance whose step is due, passed over by a pass
\* that is now dispatching for a campaign placed after it
C5_Witness ==
    \E cid \in DOMAIN campaigns :
        /\ campaigns[cid].status = "paused"
        /\ campaigns[cid].current_step = 1
        /\ campaigns[cid].next_action_at <= current_time
        /\ pc = "dispatch" /\ tick_cid # cid
        /\ PosOf(cid) < it_pos

\* C6 (pause racing an in-flight dispatch): when the dispatcher returns for
\* an instance that was paused while the call was pending, the instance
\* stays paused and its current_step and next_action_at are unchanged.
C6_PauseRace ==
    [][\A cid \in DOMAIN campaigns :
          (InFlight(cid) /\ campaigns[cid].status = "paused" /\ Returns)
             => /\ campaigns'[cid].status = "paused"
                /\ campaigns'[cid].current_step = campaigns[cid].current_step
                /\ campaigns'[cid].next_action_at = campaigns[cid].next_action_at]_vars

\* C7 (guards of pause and resume): pause_campaign succeeds exactly on an
\* active instance, resume_campaign exactly on a paused one; a refused call
\* leaves the campaign and lead records unchanged.
C7_PauseResumeGuards ==
    [][\A cid \in CampaignIds :
          /\ PauseCampaign(cid)
               => /\ last_response'.success
                        <=> (cid \in DOMAIN campaigns /\ campaigns[cid].status = "active")
                  /\ ~last_response'.success => UNCHANGED <<leads, campaigns>>
          /\ ResumeCampaign(cid)
               => /\ last_response'.success
                        <=> (cid \in DOMAIN campaigns /\ campaigns[cid].status = "paused")
                  /\ ~last_response'.success => UNCHANGED <<leads, campaigns>>]_vars

\* C7 witness: pause_campaign refused on an instance that is already paused
C7_Witness ==
    \E cid \in DOMAIN campaigns :
        /\ campaigns[cid].status = "paused"
        /\ last_response = [op |-> "pause_campaign", success |-> FALSE, id |-> cid]

\* C8 (pause and resume keep the schedule): pause_campaign and
\* resume_campaign leave next_action_at, current_step and completed_steps
\* unchanged, and a pass that reaches an instance executes its step exactly
\* when it is active and its next_action_at is not after the pass's time.
C8_PauseResumeFrame ==
    [][\A cid \in DOMAIN campaigns :
          /\ (PauseCampaign(cid) \/ ResumeCampaign(cid))
               => /\ campaigns'[cid].next_action_at = campaigns[cid].next_action_at
                  /\ campaigns'[cid].current_step = campaigns[cid].current_step
                  /\ campaigns'[cid].completed_steps = campaigns[cid].completed_steps
          /\ Examined(cid)
               => (Executed(cid) <=> /\ campaigns[cid].status = "active"
                                     /\ campaigns[cid].next_action_at <= current_time')]_vars

\* C8 witness: an instance resumed after its next_action_at had passed, now
\* being dispatched by the following pass
C8_Witness ==
    \E cid \in DOMAIN campaigns :
        /\ last_response = [op |-> "resume_campaign", success |-> TRUE, id |-> cid]
        /\ InFlight(cid)
        /\ campaigns[cid].current_step = 1
        /\ campaigns[cid].next_action_at < current_time

\* C9 (duplicate registration): nurture_lead with a lead id already in the
\* registry is refused and leaves the lead record and the campaigns alone.
C9_DuplicateLead ==
    [][\A lead_id \in DOMAIN leads :
          Registers(lead_id)
             => /\ ~last_response'.success
                /\ leads'[lead_id] = leads[lead_id]
                /\ campaigns' = campaigns]_vars

\* C10 (engagement score): a lead's engagement_score grows by exactly 1 in a
\* step that logs a successful dispatch for one of its campaigns and is
\* unchanged by every other step; it never decreases.
C10_EngagementMonotone ==
    [][\A lead_id \in DOMAIN leads :
          leads'[lead_id].engagement_score
             = leads[lead_id].engagement_score
                 + (IF \E cid \in DOMAIN campaigns :
                          campaigns[cid].lead_id = lead_id /\ StepLogged(cid, TRUE)
                    THEN 1 ELSE 0)]_vars

\* C11 (monotone progress): in every step and for every campaign id, the
\* record stays in the map, current_step does not decrease, and the status
\* is unchanged or moves along active->paused, paused->active,
\* active->completed or active->failed.
C11_MonotoneProgress ==
    [][\A cid \in DOMAIN campaigns :
          /\ cid \in DOMAIN campaigns'
          /\ campaigns'[cid].current_step >= campaigns[cid].current_step
          /\ \/ campaigns'[cid].status = campaigns[cid].status
             \/ <<campaigns[cid].status, campaigns'[cid].status>>
                   \in {<<"active", "paused">>, <<"paused", "active">>,
                        <<"active", "completed">>, <<"active", "failed">>}]_vars

\* C12 (campaign creation): a successful nurture_lead answers with the lead
\* id and a campaign id, and stores under that id a welcome_series instance
\* with current_step 0, status active, no completed step and next_action_at
\* equal to the creation time; a pass started at or after the creation that
\* reaches the still untouched instance executes its first step, whatever
\* delay the first step carries.
C12_NurtureCreates ==
    [][/\ \A lead_id \in LeadIds :
             (Registers(lead_id) /\ last_response'.success)
                => LET cid == last_response'.campaign_id IN
                   /\ last_response'.id = lead_id
                   /\ cid \in DOMAIN campaigns'
                   /\ campaigns'[cid].lead_id = lead_id
                   /\ campaigns'[cid].template = "welcome_series"
                   /\ campaigns'[cid].current_step = 0
                   /\ campaigns'[cid].status = "active"
                   /\ campaigns'[cid].completed_steps = <<>>
                   /\ campaigns'[cid].next_action_at = now
       /\ \A cid \in DOMAIN campaigns :
             (/\ Examined(cid)
              /\ campaigns[cid].status = "active"
              /\ campaigns[cid].current_step = 0
              /\ campaigns[cid].completed_steps = <<>>
              /\ current_time' >= campaigns[cid].started_at)
                => Executed(cid)]_vars

\* C12 witness: the first step of a fresh instance, a step with a delay of
\* its own, is at the dispatcher in a pass taken at the creation time
C12_Witness ==
    \E cid \in DOMAIN campaigns :
        /\ InFlight(cid)
        /\ campaigns[cid].current_step = 0
        /\ Template(cid)[1].delay_days > 0
        /\ current_time = campaigns[cid].started_at
        /\ last_response = [op |-> "nurture_lead", success |-> TRUE,
                            id |-> campaigns[cid].lead_id, campaign_id |-> cid]

\* C13 (delay scheduling): when the bookkeeping of a successful dispatch of
\* step i runs at time t and i is not the last step, next_action_at becomes
\* t plus the delay of step i+1; and a pass hands a step of an instance to
\* the dispatcher only when the pass's time is not before next_action_at.
C13_DelayScheduling ==
    [][\A cid \in DOMAIN campaigns :
          /\ (StepLogged(cid, TRUE)
              /\ campaigns[cid].current_step + 1 < Len(Template(cid)))
                => /\ campaigns'[cid].current_step = campaigns[cid].current_step + 1
                   /\ campaigns'[cid].next_action_at
                         = now + Template(cid)[campaigns[cid].current_step + 2].delay_days
          /\ DispatchStarted(cid)
                => campaigns[cid].next_action_at <= current_time']_vars

\* C13 witness: step 0 succeeded, step 1 is scheduled for a later day, and a
\* pass taken today went through the whole dict without executing it
C13_Witness ==
    \E cid \in DOMAIN campaigns :
        /\ campaigns[cid].status = "active"
        /\ campaigns[cid].completed_steps = <<[step |-> 0, success |-> TRUE]>>
        /\ campaigns[cid].next_action_at > now
        /\ Template(cid)[2].delay_days > 0
        /\ pc = "sleep" /\ current_time = now /\ now > campaigns[cid].started_at
        /\ it_pos = Len(campaign_order)

\* ------------------------------------------------ welcome-series scenario
\* One lead, the built-in templates, a dispatcher that always succeeds, and
\* a clock that runs long enough for the three steps (delays 0, 3, 7 days).
ScenarioMaxTime == 11

ScenarioInit == Init /\ campaign_templates = DefaultTemplates

ScenarioAdvanceTime ==
    /\ now < ScenarioMaxTime
    /\ now' = now + 1
    /\ UNCHANGED <<campaign_templates, leads, campaigns, campaign_order,
                   tickvars, last_response, disk, sidevars>>

ScenarioNurture == leads = <<>> /\ NurtureLead("L1", TRUE)

ScenarioNext ==
    \/ ScenarioAdvanceTime
    \/ ScenarioNurture
    \/ Tick
    \/ DispatchReturn(TRUE)

SpecScenario == ScenarioInit /\ [][ScenarioNext]_vars

\* C14 (welcome-series scenario): with T the time of nurture_lead, a pass at
\* T dispatches step 0 and its return at T gives current_step 1,
\* next_action_at T+3 and engagement_score 1; a pass at T+1 changes nothing;
\* a pass at T+3 dispatches step 1 and its return gives current_step 2 and
\* next_action_at T+10; a pass at T+10 dispatches step 2 and its return
\* sets status completed with engagement_score 3.
C14_WelcomeScenario ==
    [][\A cid \in DOMAIN campaigns :
          LET c == campaigns[cid]
              T == c.started_at
              score == leads'[c.lead_id].engagement_score
          IN
          /\ (Tick /\ c.current_step = 0 /\ now = T) => DispatchStarted(cid)
          /\ (Returns /\ c.current_step = 0 /\ now = T)
                => /\ campaigns'[cid].current_step = 1
                   /\ campaigns'[cid].next_action_at = T + 3
                   /\ score = 1
          /\ (Tick /\ c.current_step = 1 /\ c.next_action_at = T + 3 /\ now = T + 1)
                => /\ UNCHANGED <<leads, campaigns>>
                   /\ pc' = "sleep"
          /\ (Tick /\ c.current_step = 1 /\ c.next_action_at = T + 3 /\ now = T + 3)
                => DispatchStarted(cid)
          /\ (Returns /\ c.current_step = 1 /\ now = T + 3)
                => /\ campaigns'[cid].current_step = 2
                   /\ campaigns'[cid].next_action_at = T + 10
                   /\ campaigns'[cid].status = "active"
          /\ (Tick /\ c.current_step = 2 /\ c.next_action_at = T + 10 /\ now = T + 10)
                => DispatchStarted(cid)
          /\ (Returns /\ c.current_step = 2 /\ now = T + 10)
                => /\ campaigns'[cid].status = "completed"
                   /\ score = 3]_vars

\* C14 witness: the scenario has run to its end on day T+10
C14_Witness ==
    \E cid \in DOMAIN campaigns :
        /\ campaigns[cid].status = "completed"
        /\ campaigns[cid].next_action_at = campaigns[cid].started_at + 10
        /\ now = campaigns[cid].started_at + 10
        /\ current_time = now
        /\ leads[campaigns[cid].lead_id].engagement_score = 3

\* this step hands a step of cid to the dispatcher in a pass that had
\* already handed one of its steps to the dispatcher
DispatchedAgainInPass(cid) ==
    /\ pc = "dispatch"
    /\ DispatchStarted(cid)
    /\ PosOf(cid) <= it_pos

\* C15 (one step per instance and pass): a pass executes a step of an
\* instance only if the instance is active and its next_action_at is not
\* after the pass's time when the pass tests it; the iterator only moves
\* forward over a dict whose keys keep their places, so an instance the
\* pass went past is not executed again in that pass, even when its next
\* step has no delay.
C15_OneStepPerPass ==
    [][/\ \A cid \in DOMAIN campaigns :
             /\ Executed(cid)
                   => /\ campaigns[cid].status = "active"
                      /\ campaigns[cid].next_action_at <= current_time'
             /\ DispatchStarted(cid)
                   => it_pos' \in DOMAIN campaign_order /\ campaign_order[it_pos'] = cid
             /\ ~DispatchedAgainInPass(cid)
       /\ (Returns /\ pc' = "dispatch")
             => it_pos' > it_pos /\ tick_cid' # tick_cid
       /\ \A i \in DOMAIN campaign_order :
             /\ campaign_order'[i] = campaign_order[i]
             /\ \A j \in DOMAIN campaign_order :
                   campaign_order[i] = campaign_order[j] => i = j]_vars

\* C15 witness: a pass executed step 0 of an instance whose step 1 has no
\* delay and ended; step 1 is due at the pass's own time and was left for
\* the next pass
C15_Witness ==
    \E cid \in DOMAIN campaigns :
        /\ campaigns[cid].status = "active"
        /\ campaigns[cid].current_step = 1
        /\ Template(cid)[2].delay_days = 0
        /\ campaigns[cid].next_action_at = current_time
        /\ pc = "sleep"
        /\ it_pos = Len(campaign_order)

\* C16 (at-most-once progression): the step index a pass hands to the
\* dispatcher for an instance has no record in the instance's
\* completed_steps, successful or not; every logged index is below
\* current_step and no index is logged twice.
C16_AtMostOnce ==
    [][\A cid \in DOMAIN campaigns :
          LET log == campaigns'[cid].completed_steps IN
          /\ DispatchStarted(cid)
                => \A i \in DOMAIN log : log[i].step # campaigns'[cid].current_step
          /\ cid \in DOMAIN campaigns'
                => /\ \A i \in DOMAIN log : log[i].step < campaigns'[cid].current_step
                   /\ \A i, j \in DOMAIN log : log[i].step = log[j].step => i = j]_vars

\* C16 witness: step 0 was dispatched with success and a later pass is now
\* dispatching step 1
C16_Witness ==
    \E cid \in DOMAIN campaigns :
        /\ InFlight(cid)
        /\ campaigns[cid].current_step = 1
        /\ campaigns[cid].completed_steps = <<[step |-> 0, success |-> TRUE]>>
        /\ current_time > campaigns[cid].started_at

\* ------------------------------------------- restart from persisted data
\* __init__ calls _load_data (lines 98-117): self.leads and self.campaigns
\* start as the content of data/leads.json and data/campaigns.json, written
\* by an earlier run that may have used another templates file.  Each file
\* pair below holds the campaign of lead L1 (first in the file) and a sound
\* campaign of lead L2 that is due.
StoredLead(cid, template) ==
    [NewLead(0) EXCEPT !.campaign_history = <<NewHistoryEntry(cid, template, 0)>>]

StoredCampaign(lead_id, template, step, stamp) ==
    [NewCampaign(lead_id, template, 0) EXCEPT
        !.current_step = step,
        !.next_action_at = stamp,
        !.completed_steps = [i \in 1 .. step |-> [step |-> i - 1, success |-> TRUE]]]

DataFile(first_lead_stored, template, step, stamp) ==
    LET c1 == CampaignId("L1", 1)
        c2 == CampaignId("L2", 1)
        l2 == "L2" :> StoredLead(c2, "welcome_series")
    IN [leads |-> IF first_lead_stored
                  THEN ("L1" :> StoredLead(c1, template)) @@ l2
                  ELSE l2,
        campaigns |-> (c1 :> StoredCampaign("L1", template, step, stamp))
                      @@ (c2 :> StoredCampaign("L2", "welcome_series", 0, 0)),
        order |-> <<c1, c2>>]

\* the campaign of L1 names a template the current file no longer has
DataRetiredTemplate == DataFile(TRUE, "onboarding_v1", 0, 0)

\* the campaign of L1 stands at a step the current, shorter template lacks
DataShortenedTemplate == DataFile(TRUE, "welcome_series", 2, 0)

\* the campaign of L1 carries a next_action_at that is not an ISO date
DataBadTimestamp == DataFile(TRUE, "welcome_series", 0, BadTimestamp)

\* leads.json has lost the lead of the campaign of L1
DataMissingLead == DataFile(FALSE, "welcome_series", 0, 0)

\* both files are sound
DataSound == DataFile(TRUE, "welcome_series", 0, 0)

DataFiles ==
    {DataRetiredTemplate, DataShortenedTemplate, DataBadTimestamp,
     DataMissingLead, DataSound}

LoadedInit ==
    /\ campaign_templates = FileTemplatesShort
    /\ \E data \in DataFiles :
          /\ leads = data.leads
          /\ campaigns = data.campaigns
          /\ campaign_order = data.order
          /\ disk = data
    /\ other = NoEngine
    /\ payment_history = <<>>
    /\ now = 0
    /\ pc = "sleep"
    /\ current_time = 0
    /\ it_pos = 0
    /\ it_size = 0
    /\ tick_cid = NoCampaign
    /\ detached = FALSE
    /\ last_response = NoResponse

\* after the restart a third lead may be registered while passes run
LoadedNext ==
    \/ AdvanceTime
    \/ Tick
    \/ \E outcome \in SendOutcomes : DispatchReturn(SendResult(outcome).success)
    \/ NurtureLead("L3", TRUE)

SpecLoaded == LoadedInit /\ [][LoadedNext]_vars

\* this step ends a pass
PassEnds == pc' = "sleep" /\ (Tick \/ Returns)

\* C17 (error isolation within a pass): when a pass ends, every instance
\* that was in the dict when the pass began and is active and due at the
\* pass's time has been taken from the iterator by that pass.
C17_ErrorIsolation ==
    [][PassEnds
          => \A cid \in DOMAIN campaigns :
                (/\ PosOf(cid) <= it_size'
                 /\ campaigns'[cid].status = "active"
                 /\ Parses(campaigns'[cid].next_action_at)
                 /\ campaigns'[cid].next_action_at <= current_time')
                   => PosOf(cid) <= it_pos']_vars

\* C18 (missing template): when a pass reaches an active, due instance whose
\* template is not in the store, or whose current_step is past the end of
\* its template, the instance becomes failed with an error stored, nothing
\* is dispatched for it and its completed_steps is unchanged; a failed
\* instance is never dispatched or changed by a later pass.
StructurallyBroken(cid) ==
    \/ campaigns[cid].template \notin DOMAIN campaign_templates
    \/ campaigns[cid].current_step >= Len(Template(cid))

C18_MissingTemplate ==
    [][\A cid \in DOMAIN campaigns :
          /\ (/\ Examined(cid)
              /\ campaigns[cid].status = "active"
              /\ Parses(campaigns[cid].next_action_at)
              /\ campaigns[cid].next_action_at <= current_time'
              /\ StructurallyBroken(cid))
                => /\ campaigns'[cid].status = "failed"
                   /\ campaigns'[cid].error # "none"
                   /\ campaigns'[cid].completed_steps = campaigns[cid].completed_steps
                   /\ campaigns'[cid].current_step = campaigns[cid].current_step
                   /\ ~DispatchStarted(cid)
          /\ (campaigns[cid].status = "failed" /\ StructurallyBroken(cid))
                => campaigns'[cid] = campaigns[cid] /\ ~DispatchStarted(cid)]_vars

\* C18 witness: the instance with the retired template has failed without a
\* log record, and a later pass went through the whole dict
C18_Witness ==
    \E cid \in DOMAIN campaigns :
        /\ campaigns[cid].template \notin DOMAIN campaign_templates
        /\ campaigns[cid].status = "failed"
        /\ campaigns[cid].error = "exception"
        /\ campaigns[cid].completed_steps = <<>>
        /\ pc = "sleep" /\ current_time > 0 /\ it_pos = Len(campaign_order)

\* C19 (exception while dispatching): when the provider raises during the
\* dispatch of step N of an active instance, the instance is still active at
\* step N afterwards with the same next_action_at (so the next pass retries
\* it), a failure record for N is logged, engagement_score is unchanged and
\* the exception does not reach the pass.
C19_DispatchException ==
    [][\A cid \in DOMAIN campaigns :
          LET campaign == campaigns[cid]
              lid == campaign.lead_id
              result == SendResult("exception")
          IN (/\ InFlight(cid)
              /\ campaign.status = "active"
              /\ DispatchReturn(result.success))
                => /\ ~result.raised
                   /\ campaigns'[cid].completed_steps
                         = Append(campaign.completed_steps,
                                  [step |-> campaign.current_step, success |-> FALSE])
                   /\ leads'[lid].engagement_score = leads[lid].engagement_score
                   /\ campaigns'[cid].status = "active"
                   /\ campaigns'[cid].current_step = campaign.current_step
                   /\ campaigns'[cid].next_action_at = campaign.next_action_at]_vars

\* ---------------------------------------------------- status queries
\* Variant of get_lead_status that answers for a lead it does not hold
GetLeadStatus_AnswersUnknown(lead_id) ==
    /\ last_response' = [op |-> "get_lead_status", success |-> TRUE, id |-> lead_id]
    /\ UNCHANGED <<campaign_templates, leads, campaigns, campaign_order, now,
                   tickvars, disk, sidevars>>

\* get_lead_status(lead_id), lines 302-325
GetLeadStatus(lead_id) ==
    /\ IF lead_id \in DOMAIN leads
       THEN last_response' =
               [op |-> "get_lead_status", success |-> TRUE, id |-> lead_id,
                lead |-> leads[lead_id],
                active_campaigns |->
                    SelectSeq(leads[lead_id].campaign_history,
                              LAMBDA camp : camp.status = "active")]
       ELSE \* ValueError at line 306, caught at line 320
            last_response' =
               [op |-> "get_lead_status", success |-> FALSE, id |-> lead_id]
    /\ UNCHANGED <<campaign_templates, leads, campaigns, campaign_order, now,
                   tickvars, disk, sidevars>>

\* get_campaign_status(campaign_id), lines 327-343
GetCampaignStatus(cid) ==
    /\ IF cid \in DOMAIN campaigns
       THEN last_response' =
               [op |-> "get_campaign_status", success |-> TRUE, id |-> cid,
                campaign |-> campaigns[cid]]
       ELSE \* ValueError at line 331, caught at line 338
            last_response' =
               [op |-> "get_campaign_status", success |-> FALSE, id |-> cid]
    /\ UNCHANGED <<campaign_templates, leads, campaigns, campaign_order, now,
                   tickvars, disk, sidevars>>

\* the engine with its whole Control API, on a store with or without the
\* welcome_series template
ControlInit ==
    /\ Init
    /\ campaign_templates \in {FileTemplatesShort, FileTemplatesNoWelcome}

ControlNext ==
    \/ AdvanceTime
    \/ Tick
    \/ \E outcome \in SendOutcomes : DispatchReturn(SendResult(outcome).success)
    \/ \E lead_id \in LeadIds, has_email \in BOOLEAN : NurtureLead(lead_id, has_email)
    \/ \E cid \in CampaignIds : PauseCampaign(cid)
    \/ \E cid \in CampaignIds : ResumeCampaign(cid)
    \/ \E lead_id \in LeadIds : GetLeadStatus(lead_id)
    \/ \E cid \in CampaignIds : GetCampaignStatus(cid)

SpecControl == ControlInit /\ [][ControlNext]_vars

\* this step is a call of the Control API
ControlCall ==
    \/ \E lead_id \in LeadIds, has_email \in BOOLEAN : NurtureLead(lead_id, has_email)
    \/ \E cid \in CampaignIds : PauseCampaign(cid) \/ ResumeCampaign(cid)
    \/ \E lead_id \in LeadIds : GetLeadStatus(lead_id)
    \/ \E cid \in CampaignIds : GetCampaignStatus(cid)

\* C20 (Control API never raises): every call of the Control API ends with
\* a response that carries a success flag; a get_lead_status for a lead id
\* not in the leads store and a get_campaign_status, pause_campaign or
\* resume_campaign for a campaign id not in the campaigns store answer
\* success=false and leave both stores as they were.
C20_ControlNeverRaises ==
    [][/\ ControlCall => "success" \in DOMAIN last_response'
       /\ \A lead_id \in LeadIds \ DOMAIN leads :
             GetLeadStatus(lead_id)
                => /\ last_response' = [op |-> "get_lead_status",
                                        success |-> FALSE, id |-> lead_id]
                   /\ UNCHANGED <<leads, campaigns, campaign_order>>
       /\ \A cid \in CampaignIds \ DOMAIN campaigns :
             (GetCampaignStatus(cid) \/ PauseCampaign(cid) \/ ResumeCampaign(cid))
                => /\ last_response'.id = cid
                   /\ ~last_response'.success
                   /\ UNCHANGED <<leads, campaigns, campaign_order>>]_vars

\* C20 witness: while L1 is registered and L2 is not, a query for L2 or for
\* the campaign of L2 has just been refused
C20_Witness ==
    /\ "L1" \in DOMAIN leads
    /\ "L2" \notin DOMAIN leads
    /\ CampaignId("L2", 1) \notin DOMAIN campaigns
    /\ last_response \in {[op |-> "get_lead_status", success |-> FALSE, id |-> "L2"],
                          [op |-> "get_campaign_status", success |-> FALSE,
                           id |-> CampaignId("L2", 1)]}

\* ------------------------------------------------------ crash and restart
\* The process dies at any point between two awaits and is started again:
\* the new LeadNurturing object has whatever _load_data (lines 98-117) finds
\* in the two files, and its pass loop has not run yet.
Restart ==
    /\ leads' = disk.leads
    /\ campaigns' = disk.campaigns
    /\ campaign_order' = disk.order
    /\ pc' = "sleep"
    /\ current_time' = 0
    /\ it_pos' = 0
    /\ it_size' = 0
    /\ tick_cid' = NoCampaign
    /\ detached' = FALSE
    /\ last_response' = NoResponse
    /\ UNCHANGED <<campaign_templates, now, disk, sidevars>>

CrashInit == Init /\ campaign_templates = FileTemplatesShort

CrashNext ==
    \/ AdvanceTime
    \/ Tick
    \/ \E outcome \in SendOutcomes : DispatchReturn(SendResult(outcome).success)
    \/ \E lead_id \in LeadIds, has_email \in BOOLEAN : NurtureLead(lead_id, has_email)
    \/ \E cid \in CampaignIds : PauseCampaign(cid)
    \/ \E cid \in CampaignIds : ResumeCampaign(cid)
    \/ Restart

SpecCrash == CrashInit /\ [][CrashNext]_vars

\* C21 (crash consistency): at a restart every campaign held in memory at
\* the moment of the crash is loaded again with the same status,
\* current_step and completed_steps.
C21_CrashConsistency ==
    [][Restart
          => \A cid \in DOMAIN campaigns :
                /\ cid \in DOMAIN campaigns'
                /\ campaigns'[cid].status = campaigns[cid].status
                /\ campaigns'[cid].current_step = campaigns[cid].current_step
                /\ campaigns'[cid].completed_steps = campaigns[cid].completed_steps]_vars

\* ------------------------------------------- two LeadNurturing objects
\* PluginManager.reload_configuration runs _initialize_plugins again, which
\* stores a new LeadNurturing in plugins["lead_nurturing"].  The constructor
\* loads the files and creates its own _process_campaigns task.  Nothing
\* cancels the task of the replaced object, and the task keeps the object
\* referenced, so __del__ (the only place that clears self.processing) does
\* not run: both loops go on, each over its own maps, both saving to the
\* same files.  The variables hold the object whose code runs next; `other`
\* holds the object that is waiting.
EngineState ==
    [leads |-> leads, campaigns |-> campaigns, campaign_order |-> campaign_order,
     pc |-> pc, current_time |-> current_time, it_pos |-> it_pos,
     it_size |-> it_size, tick_cid |-> tick_cid, detached |-> detached]

ReloadConfiguration ==
    /\ other = NoEngine
    /\ other' = EngineState
    /\ leads' = disk.leads
    /\ campaigns' = disk.campaigns
    /\ campaign_order' = disk.order
    /\ pc' = "sleep"
    /\ current_time' = 0
    /\ it_pos' = 0
    /\ it_size' = 0
    /\ tick_cid' = NoCampaign
    /\ detached' = FALSE
    /\ UNCHANGED <<campaign_templates, now, last_response, disk, payment_history>>

\* the event loop runs the task of the other object next
SwitchTask ==
    /\ other # NoEngine
    /\ other' = EngineState
    /\ leads' = other.leads
    /\ campaigns' = other.campaigns
    /\ campaign_order' = other.campaign_order
    /\ pc' = other.pc
    /\ current_time' = other.current_time
    /\ it_pos' = other.it_pos
    /\ it_size' = other.it_size
    /\ tick_cid' = other.tick_cid
    /\ detached' = other.detached
    /\ UNCHANGED <<campaign_templates, now, last_response, disk, payment_history>>

\* leads are registered before the reload, through the object in use then
ReloadNurture ==
    /\ other = NoEngine
    /\ \E lead_id \in LeadIds : lead_id \notin DOMAIN leads /\ NurtureLead(lead_id, TRUE)

ReloadInit == Init /\ campaign_templates = FileTemplatesShort

ReloadNext ==
    \/ AdvanceTime
    \/ Tick
    \/ \E outcome \in SendOutcomes : DispatchReturn(SendResult(outcome).success)
    \/ ReloadNurture
    \/ ReloadConfiguration
    \/ SwitchTask

SpecReload == ReloadInit /\ [][ReloadNext]_vars

\* C22 (at most one loop per step): when a loop hands step s of an instance
\* to the dispatcher, the other loop neither is dispatching step s of that
\* instance at that moment nor has a record of step s in its log.
C22_OneLoopPerStep ==
    [][\A cid \in DOMAIN campaigns :
          (/\ other # NoEngine
           /\ Tick \/ Returns
           /\ DispatchStarted(cid)
           /\ cid \in DOMAIN other.campaigns)
             => LET s == campaigns'[cid].current_step
                    theirs == other.campaigns[cid]
                IN /\ ~(/\ other.pc = "dispatch"
                        /\ other.tick_cid = cid
                        /\ theirs.current_step = s)
                   /\ \A i \in DOMAIN theirs.completed_steps :
                         theirs.completed_steps[i].step # s]_vars

\* C23 (failure then recovery): a failed dispatch of step N adds exactly one
\* failure record for N and leaves engagement_score alone; and the step the
\* next pass dispatches for an instance whose last record is a failure is
\* the step of that record.
C23_FailureThenRecovery ==
    [][\A cid \in DOMAIN campaigns :
          LET campaign == campaigns[cid]
              log == campaign.completed_steps
          IN /\ StepLogged(cid, FALSE)
                   => /\ campaigns'[cid].completed_steps
                            = Append(log, [step |-> campaign.current_step,
                                           success |-> FALSE])
                      /\ leads'[campaign.lead_id].engagement_score
                            = leads[campaign.lead_id].engagement_score
             /\ (/\ Tick
                 /\ DispatchStarted(cid)
                 /\ log # <<>>
                 /\ ~log[Len(log)].success)
                   => campaigns'[cid].current_step = log[Len(log)].step]_vars

\* the step indices of the records of a log, in log order
LoggedSteps(log) == [i \in DOMAIN log |-> log[i].step]

\* a sequence of dispatched step indices that starts at 0 and at each
\* dispatch either repeats the index or moves to the next one
InTemplateOrder(indices) ==
    /\ indices # <<>> => indices[1] = 0
    /\ \A i \in 1 .. Len(indices) - 1 : indices[i + 1] \in {indices[i], indices[i] + 1}

\* C24 (template order): whenever a pass hands a step of an instance to the
\* dispatcher, the indices dispatched for that record so far (its log)
\* followed by the index handed over now start at 0, never go down and never
\* jump over an index.
C24_TemplateOrder ==
    [][\A cid \in DOMAIN campaigns :
          ((Tick \/ Returns) /\ DispatchStarted(cid))
             => InTemplateOrder(Append(LoggedSteps(campaigns'[cid].completed_steps),
                                       campaigns'[cid].current_step))]_vars

\* C24 witness: step 1 is being dispatched for a record whose log holds the
\* dispatch of step 0
C24_Witness ==
    \E cid \in DOMAIN campaigns :
        /\ InFlight(cid)
        /\ campaigns[cid].current_step = 1
        /\ LoggedSteps(campaigns[cid].completed_steps) = <<0>>

\* ---------------------------------------------------- PaymentGateway
\* payment_gateway.py.  A record of payment_history is kept as its gateway
\* and customer_id; amount, currency, status, ids and timestamp are copied
\* from the request and the provider and are not read by the code below.
MaxPayments == 3

\* Python None, for an argument left out or a key missing from payment_data
None == "<None>"

CustomerIds == {None, "", "c1", "c2"}

enginevars ==
    <<campaign_templates, leads, campaigns, campaign_order, now, tickvars,
      disk, other>>

\* Python truth value of an optional string argument (lines 239, 242)
TruthyStr(x) == x # None /\ x # ""

\* Python truth value of the optional limit (line 245); the argument is
\* <<>> when left out and <<n>> when given
TruthyLimit(limit) == limit # <<>> /\ limit[1] # 0

\* history[-n:] for n > 0
LastItems(history, n) ==
    IF n >= Len(history) THEN history
    ELSE SubSeq(history, Len(history) - n + 1, Len(history))

\* get_payment_history, lines 232-253
GetPaymentHistory(history, customer_id, gateway, limit) ==
    LET h1 == IF TruthyStr(customer_id)
              THEN SelectSeq(history, LAMBDA p : p.customer_id = customer_id)
              ELSE history
        h2 == IF TruthyStr(gateway)
              THEN SelectSeq(h1, LAMBDA p : p.gateway = gateway)
              ELSE h1
    IN IF TruthyLimit(limit) THEN LastItems(h2, limit[1]) ELSE h2

\* what the provider does with a request.  Stripe: PaymentIntent.create
\* returns an intent, raises a StripeError, or the request lacks a key and
\* a KeyError is raised while the arguments are built.  PayPal: create()
\* returns True with or without a link of rel "approval_url" among
\* payment.links, returns False, or the client raises.
StripeOutcomes == {"intent", "stripe_error", "key_error"}

PayPalOutcomes == {"created", "created_no_approval_link", "not_created", "client_error"}

\* Variant that records the attempt whatever the provider answered
PaymentResult_RecordsEveryAttempt(gateway, outcome) ==
    IF gateway = "stripe"
    THEN [recorded |-> TRUE, success |-> outcome = "intent"]
    ELSE IF gateway = "paypal"
    THEN [recorded |-> TRUE, success |-> outcome = "created"]
    ELSE [recorded |-> FALSE, success |-> FALSE]

\* _process_stripe_payment (lines 56-97) and _process_paypal_payment (lines
\* 99-151) as [recorded, success]: whether _record_payment ran and what the
\* response reports.  With no approval link the record of line 123 is
\* already appended when next() raises StopIteration at line 137, which the
\* handler of line 145 turns into a success=false response.
PaymentResult(gateway, outcome) ==
    IF gateway = "stripe"
    THEN [recorded |-> outcome = "intent", success |-> outcome = "intent"]
    ELSE IF gateway = "paypal"
    THEN [recorded |-> outcome \in {"created", "created_no_approval_link"},
          success |-> outcome = "created"]
    ELSE \* ValueError at line 46
         [recorded |-> FALSE, success |-> FALSE]

\* process_payment(payment_data), lines 36-54
ProcessPayment(gateway, customer_id, outcome) ==
    LET result == PaymentResult(gateway, outcome) IN
    /\ Len(payment_history) < MaxPayments
    /\ payment_history' =
          IF result.recorded
          THEN Append(payment_history, [gateway |-> gateway, customer_id |-> customer_id])
          ELSE payment_history
    /\ last_response' = [op |-> "process_payment", success |-> result.success,
                         gateway |-> gateway]
    /\ UNCHANGED enginevars

\* a call of get_payment_history
PaymentHistoryQuery(customer_id, gateway, limit) ==
    /\ last_response' =
          [op |-> "get_payment_history", customer_id |-> customer_id,
           gateway |-> gateway, limit |-> limit,
           history |-> GetPaymentHistory(payment_history, customer_id, gateway, limit)]
    /\ UNCHANGED <<payment_history, enginevars>>

\* get_analytics, lines 255-280
GetAnalytics ==
    /\ last_response' =
          [op |-> "get_analytics",
           total_payments |-> Len(payment_history),
           stripe_count |-> Len(SelectSeq(payment_history,
                                          LAMBDA p : p.gateway = "stripe")),
           paypal_count |-> Len(SelectSeq(payment_history,
                                          LAMBDA p : p.gateway = "paypal"))]
    /\ UNCHANGED <<payment_history, enginevars>>

Limits == {<<>>, <<0>>, <<1>>, <<2>>}

PaymentsInit == Init /\ campaign_templates = DefaultTemplates

PaymentsNext ==
    \/ \E customer_id \in CustomerIds, outcome \in StripeOutcomes :
          ProcessPayment("stripe", customer_id, outcome)
    \/ \E customer_id \in CustomerIds, outcome \in PayPalOutcomes :
          ProcessPayment("paypal", customer_id, outcome)
    \/ \E customer_id \in CustomerIds, gateway \in {None, "stripe", "paypal"},
          limit \in Limits :
          PaymentHistoryQuery(customer_id, gateway, limit)
    \/ GetAnalytics

SpecPayments == PaymentsInit /\ [][PaymentsNext]_vars

\* this step is a call of get_payment_history
HistoryQueried ==
    /\ "op" \in DOMAIN last_response'
    /\ last_response'.op = "get_payment_history"
    /\ UNCHANGED enginevars
    /\ last_response' # last_response \/ payment_history' = payment_history

\* C25 (payment history query): a call of get_payment_history returns, in
\* recording order, exactly the records that match every filter given (an
\* argument other than None); with a limit n given it returns the last n of
\* them, all of them if they are fewer than n; payment_history is unchanged.
C25_PaymentHistoryQuery ==
    [][HistoryQueried
          => LET q == last_response'
                 matching ==
                     SelectSeq(payment_history,
                         LAMBDA p : /\ q.customer_id # None
                                        => p.customer_id = q.customer_id
                                    /\ q.gateway # None => p.gateway = q.gateway)
             IN /\ q.history = IF q.limit = <<>> THEN matching
                                ELSE LastItems(matching, q.limit[1])
                /\ payment_history' = payment_history]_vars

\* the provider accepted the payment: Stripe returned an intent, PayPal's
\* create() returned True
Accepted(gateway) ==
    IF gateway = "stripe" THEN {"intent"}
    ELSE {"created", "created_no_approval_link"}

\* C26 (payment recording): an attempt that Stripe answers with a
\* StripeError or PayPal with create() = False returns success=false and
\* leaves payment_history unchanged; an attempt that returns success=true
\* appends exactly one record, of its gateway and customer; payment_history
\* changes only by the append of one record for a payment the provider
\* accepted; and get_analytics reports total_payments = len(payment_history)
\* = stripe count + paypal count.
C26_PaymentRecording ==
    [][/\ \A c \in CustomerIds :
             (\/ ProcessPayment("stripe", c, "stripe_error")
              \/ ProcessPayment("paypal", c, "not_created"))
                => /\ ~last_response'.success
                   /\ payment_history' = payment_history
       /\ \A g \in {"stripe", "paypal"}, c \in CustomerIds :
             (\E o \in StripeOutcomes \cup PayPalOutcomes :
                 ProcessPayment(g, c, o) /\ last_response'.success)
                => payment_history'
                      = Append(payment_history, [gateway |-> g, customer_id |-> c])
       /\ payment_history' # payment_history
             => \E g \in {"stripe", "paypal"}, c \in CustomerIds :
                   /\ payment_history'
                         = Append(payment_history, [gateway |-> g, customer_id |-> c])
                   /\ \E o \in Accepted(g) : ProcessPayment(g, c, o)
       /\ GetAnalytics
             => /\ last_response'.total_payments = Len(payment_history)
                /\ last_response'.total_payments
                      = last_response'.stripe_count + last_response'.paypal_count]_vars

\* C26 witness: after one accepted Stripe payment and one accepted PayPal
\* payment get_analytics has reported two payments, one per gateway
C26_Witness ==
    /\ Len(payment_history) = 2
    /\ last_response = [op |-> "get_analytics", total_payments |-> 2,
                        stripe_count |-> 1, paypal_count |-> 1]

\* the entries of the owning lead's campaign_history that name cid
HistoryEntries(cid) ==
    LET lid == campaigns[cid].lead_id IN
    IF lid \in DOMAIN leads
    THEN SelectSeq(leads[lid].campaign_history, LAMBDA camp : camp.campaign_id = cid)
    ELSE <<>>

\* C27 (history mirrors status): every campaign has an entry in its lead's
\* campaign_history, and the status of each such entry is the status of the
\* campaign.
C27_HistoryMirrorsStatus ==
    \A cid \in DOMAIN campaigns :
        /\ HistoryEntries(cid) # <<>>
        /\ \A i \in DOMAIN HistoryEntries(cid) :
              HistoryEntries(cid)[i].status = campaigns[cid].status

C29_FailedNurtureLeavesNoTrace ==
    [][\A lead_id \in LeadIds, has_email \in BOOLEAN :
          (NurtureLead(lead_id, has_email) /\ ~last_response'.success)
             => /\ leads' = leads
                /\ campaigns' = campaigns
                /\ \A l \in DOMAIN leads' :
                      \E cid \in DOMAIN campaigns' : campaigns'[cid].lead_id = l]_vars

\* ------------------------------------------------------------- progress
\* The engine of one process run with every lead registered at most once.
\* The clock moves only while some unfinished campaign waits for a later
\* time, which keeps the state space finite without stopping time before a
\* scheduled step.  The pass loop sleeps 60 s and runs again for as long as
\* the process lives (lines 210-231), every dispatcher call returns, and
\* time passes: hence the three fairness conditions.
LiveAdvanceTime ==
    /\ \E cid \in DOMAIN campaigns :
          /\ campaigns[cid].status \in {"active", "paused"}
          /\ campaigns[cid].next_action_at > now
    /\ now' = now + 1
    /\ UNCHANGED <<campaign_templates, leads, campaigns, campaign_order,
                   tickvars, last_response, disk, sidevars>>

LiveNurture ==
    \E lead_id \in LeadIds : lead_id \notin DOMAIN leads /\ NurtureLead(lead_id, TRUE)

LiveInit == Init /\ campaign_templates \in {FileTemplatesShort, FileTemplatesPush}

LiveNext ==
    \/ LiveAdvanceTime
    \/ Tick
    \/ \E outcome \in SendOutcomes : DispatchReturn(SendResult(outcome).success)
    \/ LiveNurture
    \/ \E cid \in CampaignIds : PauseCampaign(cid)
    \/ \E cid \in CampaignIds : ResumeCampaign(cid)

SpecLive ==
    /\ LiveInit
    /\ [][LiveNext]_vars
    /\ WF_vars(Tick)
    /\ WF_vars(\E outcome \in SendOutcomes : DispatchReturn(SendResult(outcome).success))
    /\ WF_vars(LiveAdvanceTime)

\* number of dispatcher calls made so far for the record of cid
Dispatches(cid) ==
    Len(campaigns[cid].completed_steps) + (IF InFlight(cid) THEN 1 ELSE 0)

Terminated(cid) ==
    cid \in DOMAIN campaigns /\ campaigns[cid].status \in {"completed", "failed"}

====
